---- MODULE Spec2Model ----
(***************************************************************************)
(* A model of scripts/tree_census_h3_generator.py: the month-range parser, *)
(* the prominence-weighted colour blender and the script's month loop.     *)
(*                                                                         *)
(* Text is a sequence of one-character strings, so that splitting, integer *)
(* parsing and hex decoding/encoding are computed, not assumed.  A table    *)
(* cell is the set holding its value, and the empty set NA when the value  *)
(* is missing (pandas NA / NaN / None).  A Python call's outcome is a      *)
(* record: raised names the exception ("none" when the call returns) and   *)
(* returned is the set holding the returned value (empty when the call     *)
(* raises, or returns None).                                               *)
(***************************************************************************)
EXTENDS Integers, Sequences, FiniteSets, TLC

VARIABLES range_text, months_flowering, group, blended_color, run

vars == <<range_text, months_flowering, group, blended_color, run>>

\* ------------------------------------------------------------------------
\* Bounds of the model

\* Most ';'-separated segments in a range text.
MaxSegs == 2

\* Most rows in a group handed to the blender on its own.
MaxGroup == 3

\* Most trees in the census of a run of the script.
MaxTrees == 2

\* Most trees in each census when two runs are compared.
MaxPairTrees == 2

\* ------------------------------------------------------------------------
\* Text helpers (Python's str methods and int())

NA == {}

Some(v) == {v}

Get(cell) == CHOOSE v \in cell : TRUE

Digits == {"0", "1", "2", "3", "4", "5", "6", "7", "8", "9"}

DigitVal ==
    "0" :> 0 @@ "1" :> 1 @@ "2" :> 2 @@ "3" :> 3 @@ "4" :> 4 @@
    "5" :> 5 @@ "6" :> 6 @@ "7" :> 7 @@ "8" :> 8 @@ "9" :> 9

RECURSIVE Split(_, _)
\* str.split(sep): the pieces between the separators; always at least one.
Split(s, sep) ==
    IF \A i \in 1..Len(s) : s[i] # sep
    THEN <<s>>
    ELSE LET k == CHOOSE i \in 1..Len(s) :
                      s[i] = sep /\ \A j \in 1..(i - 1) : s[j] # sep
         IN  <<SubSeq(s, 1, k - 1)>> \o Split(SubSeq(s, k + 1, Len(s)), sep)

RECURSIVE Strip(_)
\* str.strip() as int() applies it: blanks at both ends go.
Strip(s) ==
    IF s = <<>> THEN s
    ELSE IF Head(s) = " " THEN Strip(Tail(s))
    ELSE IF s[Len(s)] = " " THEN Strip(SubSeq(s, 1, Len(s) - 1))
    ELSE s

RECURSIVE DecimalValue(_)
DecimalValue(s) ==
    IF s = <<>> THEN 0
    ELSE 10 * DecimalValue(SubSeq(s, 1, Len(s) - 1)) + DigitVal[s[Len(s)]]

\* int(s) on the texts of this model: blanks around the digits are dropped,
\* then one or more decimal digits are required; anything else is a
\* ValueError.  (No sign can reach int() here: the text was split on "-".)
PyInt(s) ==
    LET t == Strip(s)
    IN  IF t # <<>> /\ \A i \in 1..Len(t) : t[i] \in Digits
        THEN [raised |-> "none", returned |-> {DecimalValue(t)}]
        ELSE [raised |-> "ValueError", returned |-> {}]

\* ------------------------------------------------------------------------
\* convert_text_range_to_months

MONTHS ==
    <<"Jan", "Feb", "Mar", "Apr", "May", "Jun",
      "Jul", "Aug", "Sep", "Oct", "Nov", "Dec">>

MonthLabels == {MONTHS[k] : k \in 1..Len(MONTHS)}

\* Python's MONTHS[i] for a 0-based i: a negative i counts from the end,
\* and an i outside -len..len-1 is an IndexError.
PyIndexInRange(i) == -Len(MONTHS) <= i /\ i <= Len(MONTHS) - 1

PyIndex(i) == IF i >= 0 THEN i + 1 ELSE i + Len(MONTHS) + 1

\* A variant that drops the "+ 1": the end month is left out.
MonthRangeExclusive(start_month, end_month) == (start_month - 1)..(end_month - 1 - 1)

\* A variant that walks on through December into the new year when the
\* end month is before the start month.
MonthRangeWrapping(start_month, end_month) ==
    IF end_month < start_month
    THEN ((start_month - 1)..(Len(MONTHS) - 1)) \cup (0..(end_month - 1))
    ELSE (start_month - 1)..(end_month - 1)

\* range(start_month - 1, end_month - 1 + 1)
MonthRange(start_month, end_month) == (start_month - 1)..(end_month - 1 + 1 - 1)

\* One pass of the loop body for segment r, from calendar cal.
ConvertSegment(cal, r) ==
    LET parts == Split(r, "-")
        ints  == [k \in 1..Len(parts) |-> PyInt(parts[k])]
    IN  IF Len(parts) # 2 \/ \E k \in 1..Len(parts) : ints[k].raised # "none"
        THEN [raised |-> "ValueError", returned |-> {}]
        ELSE LET start_month == Get(ints[1].returned)
                 end_month   == Get(ints[2].returned)
                 idx         == MonthRange(start_month, end_month)
             IN  IF \E i \in idx : ~PyIndexInRange(i)
                 THEN [raised |-> "IndexError", returned |-> {}]
                 ELSE [raised |-> "none",
                       returned |->
                          {[m \in MonthLabels |->
                              cal[m] \/ \E i \in idx : MONTHS[PyIndex(i)] = m]}]

RECURSIVE ConvertSegments(_, _)
\* The for loop over the segments; the first exception ends it.
ConvertSegments(cal, segs) ==
    IF segs = <<>> THEN [raised |-> "none", returned |-> {cal}]
    ELSE LET one == ConvertSegment(cal, Head(segs))
         IN  IF one.raised # "none" THEN one
             ELSE ConvertSegments(Get(one.returned), Tail(segs))

convert_text_range_to_months(text) ==
    ConvertSegments([m \in MonthLabels |-> FALSE], Split(text, ";"))

\* ------------------------------------------------------------------------
\* Range texts the parser is applied to

RECURSIVE Join(_, _)
Join(pieces, sep) ==
    IF Len(pieces) = 0 THEN <<>>
    ELSE IF Len(pieces) = 1 THEN pieces[1]
    ELSE pieces[1] \o <<sep>> \o Join(Tail(pieces), sep)

NumberTexts ==
    { <<"0">>, <<"1">>, <<"2">>, <<"1", "1">>, <<"1", "2">>, <<"1", "3">> }

\* Segments that are not two numbers around one dash, and one with blanks.
OddSegments ==
    { <<>>, <<"5">>, <<"1", "-", "2", "-", "1">>, <<"x", "-", "2">>,
      <<" ", "2", "-", "5", " ">> }

SegmentTexts ==
    {a \o <<"-">> \o b : a \in NumberTexts, b \in NumberTexts} \cup OddSegments

SegmentLists == UNION {[1..n -> SegmentTexts] : n \in 1..MaxSegs}

RangeTexts == {Join(segs, ";") : segs \in SegmentLists}

NotCalled == [raised |-> "pending", returned |-> {}]

IdleRun == <<>>

InitParse ==
    /\ range_text \in RangeTexts
    /\ months_flowering = NotCalled
    /\ group = <<>>
    /\ blended_color = NotCalled
    /\ run = IdleRun

Convert ==
    /\ months_flowering = NotCalled
    /\ months_flowering' = convert_text_range_to_months(range_text)
    /\ UNCHANGED <<range_text, group, blended_color, run>>

NextParse == Convert

SpecParse == InitParse /\ [][NextParse]_vars

\* ------------------------------------------------------------------------
\* blend_colors_with_prominence

prominence_weights == [low |-> 1, med |-> 2, high |-> 3]

HexDigitsLower ==
    <<"0", "1", "2", "3", "4", "5", "6", "7",
      "8", "9", "a", "b", "c", "d", "e", "f">>

HexVal ==
    DigitVal @@ "a" :> 10 @@ "b" :> 11 @@ "c" :> 12 @@ "d" :> 13 @@
    "e" :> 14 @@ "f" :> 15 @@ "A" :> 10 @@ "B" :> 11 @@ "C" :> 12 @@
    "D" :> 13 @@ "E" :> 14 @@ "F" :> 15

RECURSIVE LStrip(_, _)
LStrip(s, c) == IF s # <<>> /\ Head(s) = c THEN LStrip(Tail(s), c) ELSE s

\* int(pair, 16) of the two characters at 0-based offset i
HexPair(h, i) == 16 * HexVal[h[i + 1]] + HexVal[h[i + 2]]

\* hex_to_rgb, on a '#' followed by six hex digits
hex_to_rgb(hex_color) ==
    LET h == LStrip(hex_color, "#")
    IN  <<HexPair(h, 0), HexPair(h, 2), HexPair(h, 4)>>

\* "{:02x}" of a value in 0..255
Format02x(v) == <<HexDigitsLower[(v \div 16) + 1], HexDigitsLower[(v % 16) + 1]>>

rgb_to_hex(rgb) == <<"#">> \o Format02x(rgb[1]) \o Format02x(rgb[2]) \o Format02x(rgb[3])

notna(v) == v # NA

RECURSIVE SumSeq(_)
SumSeq(s) == IF s = <<>> THEN 0 ELSE Head(s) + SumSeq(Tail(s))

\* A variant that looks the weight up with a default, as
\* prominence_weights.get(prominence, 1.0) would.
WeightOrDefault(prominence) ==
    [raised |-> "none",
     returned |-> {IF prominence \in DOMAIN prominence_weights
                   THEN prominence_weights[prominence] ELSE 1}]

\* prominence_weights[prominence]: a KeyError for a key the table lacks
WeightOf(prominence) ==
    IF prominence \in DOMAIN prominence_weights
    THEN [raised |-> "none", returned |-> {prominence_weights[prominence]}]
    ELSE [raised |-> "KeyError", returned |-> {}]

RECURSIVE BlendCollect(_, _, _)
\* The loop over the group's rows: colors and weights of the rows that
\* have both a colour and a prominence; a prominence that is no key of
\* prominence_weights raises KeyError at that row.
BlendCollect(rows, colors, weights) ==
    IF rows = <<>>
    THEN [raised |-> "none", colors |-> colors, weights |-> weights]
    ELSE LET row == Head(rows)
         IN  IF notna(row.colour) /\ notna(row.prominence)
             THEN LET weight == WeightOf(Get(row.prominence))
                  IN  IF weight.raised = "none"
                      THEN BlendCollect(Tail(rows),
                                        Append(colors, hex_to_rgb(Get(row.colour_hex))),
                                        Append(weights, Get(weight.returned)))
                      ELSE [raised |-> weight.raised,
                            colors |-> colors, weights |-> weights]
             ELSE BlendCollect(Tail(rows), colors, weights)

\* A variant that rounds the mean to the nearest integer.
WeightedChannelRounded(colors, weights, ch) ==
    (2 * SumSeq([k \in 1..Len(colors) |-> colors[k][ch] * weights[k]])
        + SumSeq(weights)) \div (2 * SumSeq(weights))

\* sum(c[ch] * w for c, w in zip(colors, weights)) / total_weight, then
\* int(): the weights are the floats 1.0, 2.0, 3.0, every product and sum is
\* an integer far below 2^53 and so exact, and int() of the quotient is its
\* integer part.
WeightedChannel(colors, weights, ch) ==
    SumSeq([k \in 1..Len(colors) |-> colors[k][ch] * weights[k]]) \div SumSeq(weights)

\* A variant that answers black where the blender answers None.
ReturnBlack ==
    [raised |-> "none", returned |-> {<<"#", "0", "0", "0", "0", "0", "0">>}]

\* return None
ReturnNone == [raised |-> "none", returned |-> {}]

blend_colors_with_prominence(rows) ==
    LET got == BlendCollect(rows, <<>>, <<>>)
    IN  IF got.raised # "none" THEN [raised |-> got.raised, returned |-> {}]
        ELSE IF got.colors = <<>> THEN ReturnNone
        ELSE IF SumSeq(got.weights) = 0 THEN ReturnNone
        ELSE [raised |-> "none",
              returned |-> {rgb_to_hex(<<WeightedChannel(got.colors, got.weights, 1),
                                         WeightedChannel(got.colors, got.weights, 2),
                                         WeightedChannel(got.colors, got.weights, 3)>>)}]

\* ------------------------------------------------------------------------
\* Groups the blender is applied to

Red == <<"#", "f", "f", "0", "0", "0", "0">>

\* Upper-case digits decode like lower-case ones.
Blue == <<"#", "0", "0", "0", "0", "F", "F">>

ColourValues == {Some(Red), Some(Blue), NA}

ProminenceValues == {Some("low"), Some("med"), Some("high"), Some("huge"), NA}

\* A row as the blender reads it; colour_hex is a copy of colour.
Row(colour, prominence) ==
    [colour |-> colour, colour_hex |-> colour, prominence |-> prominence]

BlendRows == {Row(c, p) : c \in ColourValues, p \in ProminenceValues}

InitBlend ==
    /\ group \in UNION {[1..n -> BlendRows] : n \in 0..MaxGroup}
    /\ blended_color = NotCalled
    /\ range_text = <<>>
    /\ months_flowering = NotCalled
    /\ run = IdleRun

Blend ==
    /\ blended_color = NotCalled
    /\ blended_color' = blend_colors_with_prominence(group)
    /\ UNCHANGED <<range_text, months_flowering, group, run>>

NextBlend == Blend

SpecBlend == InitBlend /\ [][NextBlend]_vars

\* ------------------------------------------------------------------------
\* The script: ingestion, then the loop over MONTHS
\*
\* run[r] is one execution of the script.  Its inputs are tree_data (the
\* species table), gdf (the tree census) and output_format; pc is where the
\* execution stands ("ingest": before line 78, "loop": at the head of the
\* month loop, "done": past the loop, "raised": ended by the exception named
\* in raised).  visited lists the months whose loop body was entered,
\* blended_colors[m] is the list built in month m's pass (as it stood when
\* the pass ended), and files is what savefig and to_file have written.

\* --resolution (the default)
Resolution == 11

\* h3.latlng_to_cell(point.y, point.x, res): the library's cell of a point.
\* Points are <<lat, lng>> in hundredths of a degree; a cell index is a number.
latlng_to_cell(lat, lng, res) == (lat \div 10) * 1000 + (lng \div 10) + res

\* tree_data.dropna(subset=["months", "colour"])
dropna(rows) == SelectSeq(rows, LAMBDA row : notna(row.months) /\ notna(row.colour))

\* tree_data["months"].apply(convert_text_range_to_months), row by row
MonthsApplied(rows) == [k \in 1..Len(rows) |-> convert_text_range_to_months(Get(rows[k].months))]

RECURSIVE MatchesOf(_, _)
\* The rows of the species table merged with one tree, in table order.
MatchesOf(tree, rows) ==
    IF rows = <<>> THEN <<>>
    ELSE (IF Head(rows).TreeName = tree.TreeName
          THEN <<[TreeName |-> tree.TreeName,
                  h3_index |-> latlng_to_cell(tree.geometry[1], tree.geometry[2], Resolution),
                  colour |-> Head(rows).colour,
                  colour_hex |-> Head(rows).colour,
                  prominence |-> Head(rows).prominence,
                  months_flowering |-> Head(rows).months_flowering]>>
          ELSE <<>>) \o MatchesOf(tree, Tail(rows))

RECURSIVE merge(_, _)
\* gdf.merge(tree_data, on=["TreeName"]): an inner join in census order,
\* with h3_index and colour_hex added (lines 121-125).
merge(trees, rows) ==
    IF trees = <<>> THEN <<>>
    ELSE MatchesOf(Head(trees), rows) \o merge(Tail(trees), rows)

\* A variant that forgets the month: a tree that flowers in any month counts.
FloweringInAnyMonth(df, m) ==
    SelectSeq(df, LAMBDA row : \E n \in MonthLabels : row.months_flowering[n])

\* flowering_tree_df[flowering_tree_df[month] == True]
FloweringIn(df, m) == SelectSeq(df, LAMBDA row : row.months_flowering[m])

\* A variant that hands every group the whole month's rows.
GroupOfWholeFrame(df, h3_index) == df

\* The rows of one group, in frame order.
GroupOf(df, h3_index) == SelectSeq(df, LAMBDA row : row.h3_index = h3_index)

RECURSIVE unique(_)
\* Series.unique(): the values in order of first appearance.
unique(values) ==
    IF values = <<>> THEN <<>>
    ELSE LET rest == unique(SubSeq(values, 1, Len(values) - 1))
             last == values[Len(values)]
         IN  IF \E k \in 1..Len(rest) : rest[k] = last THEN rest ELSE Append(rest, last)

TreeNames(rows) == [k \in 1..Len(rows) |-> rows[k].TreeName]

\* A variant that lists a name once per row of the group.
TreeSpeciesEveryRow(rows) == TreeNames(rows)

\* group["TreeName"].unique().tolist()
TreeSpecies(rows) == unique(TreeNames(rows))

\* if blended_color: (None and the empty string are false)
Truthy(blended) == blended.returned # {} /\ Get(blended.returned) # <<>>

RECURSIVE BlendGroups(_, _, _)
\* for h3_index, group in h3_groups: the groups in ascending key order; an
\* exception in a blend ends the loop with the list as built so far.
BlendGroups(keys, df, blended_colors) ==
    IF keys = {} THEN [raised |-> "none", blended_colors |-> blended_colors]
    ELSE LET h3_index == CHOOSE k \in keys : \A j \in keys : k <= j
             rows     == GroupOf(df, h3_index)
             blended  == blend_colors_with_prominence(rows)
         IN  IF blended.raised # "none"
             THEN [raised |-> blended.raised, blended_colors |-> blended_colors]
             ELSE BlendGroups(keys \ {h3_index}, df,
                      IF Truthy(blended)
                      THEN Append(blended_colors,
                                  [h3_index |-> h3_index,
                                   colour_hex |-> Get(blended.returned),
                                   tree_species |-> TreeSpecies(rows)])
                      ELSE blended_colors)

\* The month's pass up to line 164.
MonthBlend(df, m) ==
    LET flowering_in_month == FloweringIn(df, m)
    IN  BlendGroups({flowering_in_month[k].h3_index : k \in 1..Len(flowering_in_month)},
                    flowering_in_month, <<>>)

PngFile(m, cells) ==
    [name |-> <<"h3_tree_distribution", m, "resolution", Resolution, "png">>,
     rows |-> cells]

GeoJsonFile(m, cells) ==
    [name |-> <<"h3_tree_distribution", m, "resolution", Resolution, "geojson">>,
     rows |-> [k \in 1..Len(cells) |->
                  [h3_index |-> cells[k].h3_index,
                   colour_hex |-> cells[k].colour_hex,
                   tree_species |-> cells[k].tree_species,
                   prominence |-> "blended",
                   month |-> m,
                   resolution |-> Resolution]]]

\* Lines 212-253: the files written for a month with cells, by --output-format.
FilesWritten(output_format, m, cells) ==
    (IF output_format \in {"png", "both"} THEN {PngFile(m, cells)} ELSE {})
    \cup (IF output_format \in {"geojson", "both"} THEN {GeoJsonFile(m, cells)} ELSE {})

\* A variant in which a pass ends the loop, as break would.
AdvanceBreaks(this) == [this EXCEPT !.month = @ + 1, !.pc = "done"]

\* The loop variable moves on; past the last month the script ends.
Advance(this) ==
    [this EXCEPT !.month = @ + 1,
                 !.pc = IF this.month = Len(MONTHS) THEN "done" ELSE "loop"]

\* Lines 78-125: read the inputs, drop the species rows without months or
\* colour, parse the months of the others, join with the census.
Ingest(r) ==
    /\ run[r].pc = "ingest"
    /\ LET kept    == dropna(run[r].tree_data)
           applied == MonthsApplied(kept)
       IN  IF \E k \in 1..Len(kept) : applied[k].raised # "none"
           THEN LET k == CHOOSE i \in 1..Len(kept) :
                            /\ applied[i].raised # "none"
                            /\ \A j \in 1..(i - 1) : applied[j].raised = "none"
                IN  run' = [run EXCEPT ![r].pc = "raised",
                                       ![r].raised = applied[k].raised]
           ELSE run' = [run EXCEPT
                          ![r].pc = "loop",
                          ![r].flowering_tree_df =
                              merge(run[r].gdf,
                                    [k \in 1..Len(kept) |->
                                        [TreeName |-> kept[k].TreeName,
                                         colour |-> kept[k].colour,
                                         prominence |-> kept[k].prominence,
                                         months_flowering |-> Get(applied[k].returned)]])]
    /\ UNCHANGED <<range_text, months_flowering, group, blended_color>>

AtMonth(r) == run[r].pc = "loop"

ThisMonth(r) == MONTHS[run[r].month]

Entered(this, m) == [this EXCEPT !.visited = Append(@, m)]

\* Lines 137-139: no tree flowers in the month.
MonthNoTrees(r) ==
    /\ AtMonth(r)
    /\ FloweringIn(run[r].flowering_tree_df, ThisMonth(r)) = <<>>
    /\ run' = [run EXCEPT ![r] = Advance(Entered(@, ThisMonth(r)))]
    /\ UNCHANGED <<range_text, months_flowering, group, blended_color>>

\* Line 152 raises: the exception leaves the loop and ends the script.
MonthBlendRaises(r) ==
    /\ AtMonth(r)
    /\ FloweringIn(run[r].flowering_tree_df, ThisMonth(r)) # <<>>
    /\ LET got == MonthBlend(run[r].flowering_tree_df, ThisMonth(r))
       IN  /\ got.raised # "none"
           /\ run' = [run EXCEPT
                        ![r] = [Entered(@, ThisMonth(r)) EXCEPT
                                   !.pc = "raised",
                                   !.raised = got.raised,
                                   !.blended_colors[ThisMonth(r)] = got.blended_colors]]
    /\ UNCHANGED <<range_text, months_flowering, group, blended_color>>

\* Lines 162-164: no group of the month blended to a colour.
MonthNoColours(r) ==
    /\ AtMonth(r)
    /\ FloweringIn(run[r].flowering_tree_df, ThisMonth(r)) # <<>>
    /\ LET got == MonthBlend(run[r].flowering_tree_df, ThisMonth(r))
       IN  /\ got.raised = "none"
           /\ got.blended_colors = <<>>
           /\ run' = [run EXCEPT ![r] = Advance(Entered(@, ThisMonth(r)))]
    /\ UNCHANGED <<range_text, months_flowering, group, blended_color>>

\* Lines 166-255: the month's cells are plotted and exported.
MonthOutput(r) ==
    /\ AtMonth(r)
    /\ FloweringIn(run[r].flowering_tree_df, ThisMonth(r)) # <<>>
    /\ LET got == MonthBlend(run[r].flowering_tree_df, ThisMonth(r))
       IN  /\ got.raised = "none"
           /\ got.blended_colors # <<>>
           /\ run' = [run EXCEPT
                        ![r] = Advance(
                                 [Entered(@, ThisMonth(r)) EXCEPT
                                    !.blended_colors[ThisMonth(r)] = got.blended_colors,
                                    !.files = @ \cup FilesWritten(run[r].output_format,
                                                                  ThisMonth(r),
                                                                  got.blended_colors)])]
    /\ UNCHANGED <<range_text, months_flowering, group, blended_color>>


\* ------------------------------------------------------------------------
\* Inputs of a run

SpeciesNames == <<"A", "B">>

SpeciesColour == "A" :> Red @@ "B" :> Blue

January == <<"1", "-", "1">>

February == <<"2", "-", "2">>

Thirteenth == <<"1", "3", "-", "1", "3">>

\* The rows a species may have in the table: it flowers in January or in
\* February with a known, an unknown or no prominence; or it lacks its
\* colour or its months; or its months do not parse.
SpeciesRows(name) ==
    {[TreeName |-> name, months |-> Some(mo),
      colour |-> Some(SpeciesColour[name]), prominence |-> p] :
        mo \in {January, February},
        p \in {Some("low"), Some("high"), Some("huge"), NA}}
    \cup
    {[TreeName |-> name, months |-> Some(January), colour |-> NA,
      prominence |-> Some("low")],
     [TreeName |-> name, months |-> NA, colour |-> Some(SpeciesColour[name]),
      prominence |-> Some("low")],
     [TreeName |-> name, months |-> Some(Thirteenth),
      colour |-> Some(SpeciesColour[name]), prominence |-> Some("low")]}

\* One row per species.  The month columns exist only if some row survives
\* dropna (line 115 spreads the parsed calendars into columns), so a table
\* that loses every row is not among the inputs.
SpeciesTables ==
    {t \in [1..Len(SpeciesNames) ->
               UNION {SpeciesRows(SpeciesNames[k]) : k \in 1..Len(SpeciesNames)}] :
        /\ \A k \in 1..Len(SpeciesNames) : t[k].TreeName = SpeciesNames[k]
        /\ dropna(t) # <<>>}

Points == {<<1290, 7750>>, <<1300, 7750>>}

TreesAt(points) ==
    {[TreeName |-> SpeciesNames[k], geometry |-> pt] :
        k \in 1..Len(SpeciesNames), pt \in points}

Censuses(points, n) == UNION {[1..k -> TreesAt(points)] : k \in 0..n}

OutputFormats == {"png", "geojson", "both"}

NewRun(tree_data, gdf, output_format) ==
    [tree_data |-> tree_data, gdf |-> gdf, output_format |-> output_format,
     pc |-> "ingest", raised |-> "none", flowering_tree_df |-> <<>>,
     month |-> 1, visited |-> <<>>,
     blended_colors |-> [m \in MonthLabels |-> <<>>],
     files |-> {}]

Unused ==
    /\ range_text = <<>>
    /\ months_flowering = NotCalled
    /\ group = <<>>
    /\ blended_color = NotCalled

Init ==
    /\ \E t \in SpeciesTables, c \in Censuses(Points, MaxTrees), f \in OutputFormats :
          run = <<NewRun(t, c, f)>>
    /\ Unused

Next ==
    \/ \E r \in DOMAIN run : Ingest(r)
    \/ \E r \in DOMAIN run : MonthNoTrees(r)
    \/ \E r \in DOMAIN run : MonthBlendRaises(r)
    \/ \E r \in DOMAIN run : MonthNoColours(r)
    \/ \E r \in DOMAIN run : MonthOutput(r)

Spec == Init /\ [][Next]_vars

\* ------------------------------------------------------------------------
\* Two runs side by side: the same species table and output format, a
\* census each.  The runs share nothing, so they are stepped in turn: the
\* run that is behind moves, the first one on a tie.

PairTables ==
    {t \in SpeciesTables :
        \A k \in 1..Len(t) :
            /\ t[k].months \in {Some(January), Some(February)}
            /\ t[k].colour # NA
            /\ t[k].prominence # Some("high")}

PairPoints == {<<1290, 7750>>}

InitPair ==
    /\ \E t \in PairTables,
          c1 \in Censuses(PairPoints, MaxPairTrees),
          c2 \in Censuses(PairPoints, MaxPairTrees) :
          run = <<NewRun(t, c1, "both"), NewRun(t, c2, "both")>>
    /\ Unused

Ended(r) == run[r].pc \in {"done", "raised"}

Position(r) == IF run[r].pc = "ingest" THEN 0 ELSE run[r].month

Turn(r) ==
    /\ ~Ended(r)
    /\ \A q \in DOMAIN run :
          \/ Ended(q)
          \/ Position(r) < Position(q)
          \/ (Position(r) = Position(q) /\ r <= q)

NextPair ==
    \/ \E r \in DOMAIN run : Turn(r) /\ Ingest(r)
    \/ \E r \in DOMAIN run : Turn(r) /\ MonthNoTrees(r)
    \/ \E r \in DOMAIN run : Turn(r) /\ MonthBlendRaises(r)
    \/ \E r \in DOMAIN run : Turn(r) /\ MonthNoColours(r)
    \/ \E r \in DOMAIN run : Turn(r) /\ MonthOutput(r)

SpecPair == InitPair /\ [][NextPair]_vars

\* ------------------------------------------------------------------------
\* Properties of convert_text_range_to_months (under SpecParse)

RECURSIVE Numeral(_)
\* The decimal numeral of a natural number.
Numeral(n) ==
    IF n < 10 THEN <<HexDigitsLower[n + 1]>>
    ELSE Numeral(n \div 10) \o <<HexDigitsLower[(n % 10) + 1]>>

NoBlanks(s) == SelectSeq(s, LAMBDA c : c # " ")

\* Numbers a segment may name in this model.
SegmentNumbers == 0..14

RangeText ==
    [a \in SegmentNumbers, b \in SegmentNumbers |-> Numeral(a) \o <<"-">> \o Numeral(b)]

\* The text 'a-b' read back as <<a, b>>.
ReadingOf ==
    [t \in {RangeText[a, b] : a, b \in SegmentNumbers} |->
        CHOOSE ab \in SegmentNumbers \X SegmentNumbers : RangeText[ab[1], ab[2]] = t]

\* The reading <<start, end>> of a segment that is two numbers around one
\* dash (blanks around a number are not held against it); none otherwise.
Reading(seg) ==
    IF NoBlanks(seg) \in DOMAIN ReadingOf THEN {ReadingOf[NoBlanks(seg)]} ELSE {}

MonthNumbers == 1..Len(MONTHS)

TextSegments == Split(range_text, ";")

AllFalse == [m \in MonthLabels |-> FALSE]

Converted == months_flowering # NotCalled

Reorder(segs, p) == [k \in 1..Len(segs) |-> segs[p[k]]]

Orderings(n) == {p \in [1..n -> 1..n] : \A i, j \in 1..n : p[i] = p[j] => i = j}

Without(segs, k) == SubSeq(segs, 1, k - 1) \o SubSeq(segs, k + 1, Len(segs))

\* C1: for a text of segments 'start-end' with 1 <= start <= end <= 12 the
\* parser returns the calendar in which the k-th month is true if and only
\* if some segment has start <= k <= end, and every ordering of the segments
\* gives that same calendar.
C1_CalendarIsUnionOfRanges ==
    LET segs  == TextSegments
        reads == [k \in 1..Len(segs) |-> Reading(segs[k])]
    IN  (/\ Converted
         /\ \A k \in 1..Len(segs) :
               \E ab \in reads[k] :
                   1 <= ab[1] /\ ab[1] <= ab[2] /\ ab[2] <= Len(MONTHS))
        =>
        /\ months_flowering.raised = "none"
        /\ months_flowering.returned =
              {[m \in MonthLabels |->
                  \E n \in MonthNumbers, k \in 1..Len(segs) :
                      /\ MONTHS[n] = m
                      /\ \E ab \in reads[k] : ab[1] <= n /\ n <= ab[2]]}
        /\ \A p \in Orderings(Len(segs)) :
              convert_text_range_to_months(Join(Reorder(segs, p), ";"))
                  = months_flowering

\* '11-12;1-2' has been parsed into exactly Jan, Feb, Nov, Dec.
C1_Witness ==
    /\ range_text = <<"1", "1", "-", "1", "2", ";", "1", "-", "2">>
    /\ months_flowering.returned =
          {[m \in MonthLabels |-> m \in {"Jan", "Feb", "Nov", "Dec"}]}

\* C2: a text with a segment that is not two integers around a single dash,
\* or with a start or end outside 1..12, makes the parser fail: it raises
\* and returns no calendar.
C2_MalformedOrOutOfRangeFails ==
    LET segs  == TextSegments
        reads == [k \in 1..Len(segs) |-> Reading(segs[k])]
    IN  (/\ Converted
         /\ \E k \in 1..Len(segs) :
               \/ reads[k] = {}
               \/ \E ab \in reads[k] :
                     ab[1] \notin MonthNumbers \/ ab[2] \notin MonthNumbers)
        =>
        /\ months_flowering.raised # "none"
        /\ months_flowering.returned = {}

\* C9: a segment 'start-end' with 1 <= end < start <= 12 raises nothing and
\* sets no month: the outcome is that of the text without the segment, the
\* all-false calendar when it is the only segment, and no error when every
\* segment names months in 1..12.
C9_WrappingSegmentSetsNothing ==
    LET segs  == TextSegments
        reads == [k \in 1..Len(segs) |-> Reading(segs[k])]
    IN  Converted =>
        /\ \A k \in 1..Len(segs) :
              (\E ab \in reads[k] :
                  1 <= ab[2] /\ ab[2] < ab[1] /\ ab[1] <= Len(MONTHS))
              => IF Len(segs) = 1
                 THEN months_flowering = [raised |-> "none", returned |-> {AllFalse}]
                 ELSE months_flowering =
                         convert_text_range_to_months(Join(Without(segs, k), ";"))
        /\ (\A k \in 1..Len(segs) :
               \E ab \in reads[k] : ab[1] \in MonthNumbers /\ ab[2] \in MonthNumbers)
            => months_flowering.raised = "none"

\* '1-2;11-2' has been parsed into exactly Jan, Feb: the wrapping segment
\* added nothing.
C9_Witness ==
    /\ range_text = <<"1", "-", "2", ";", "1", "1", "-", "2">>
    /\ months_flowering.returned = {[m \in MonthLabels |-> m \in {"Jan", "Feb"}]}

\* ------------------------------------------------------------------------
\* Properties of blend_colors_with_prominence (under SpecBlend)

Blended == blended_color # NotCalled

\* The channel values of the colours of this model.
KnownRGB == Red :> <<255, 0, 0>> @@ Blue :> <<0, 0, 255>>

KnownWeight == "low" :> 1 @@ "med" :> 2 @@ "high" :> 3

RECURSIVE SumOver(_, _)
\* The sum of f[i] over the indexes i in S.
SumOver(S, f) ==
    IF S = {} THEN 0
    ELSE LET i == CHOOSE j \in S : TRUE IN f[i] + SumOver(S \ {i}, f)

HasBoth(row) == row.colour # NA /\ row.prominence # NA

\* A row with a colour and one of the three known prominences.
Weighable(row) == row.colour # NA /\ \E p \in DOMAIN KnownWeight : row.prominence = {p}

\* A row with a colour and a prominence that is none of low, med, high.
Unrecognised(row) == HasBoth(row) /\ ~Weighable(row)

\* hex is '#' and three two-digit lower-case hex numbers, the number for each
\* channel being the integer part of sum(value * weight) / sum(weight) over
\* the weighable rows of rows.
IsWeightedMean(hex, rows) ==
    LET idx == {k \in 1..Len(rows) : Weighable(rows[k])}
        w   == [k \in idx |-> KnownWeight[Get(rows[k].prominence)]]
        W   == SumOver(idx, w)
    IN  /\ Len(hex) = 7
        /\ hex[1] = "#"
        /\ \A ch \in 1..3 :
              LET S == SumOver(idx, [k \in idx |-> KnownRGB[Get(rows[k].colour)][ch] * w[k]])
                  hi == hex[2 * ch]
                  lo == hex[2 * ch + 1]
              IN  \E a, b \in 0..15 :
                      /\ HexDigitsLower[a + 1] = hi
                      /\ HexDigitsLower[b + 1] = lo
                      /\ (16 * a + b) * W <= S
                      /\ S < (16 * a + b + 1) * W

\* The original C3: a group with at least one row that has a colour and a
\* prominence in {low, med, high} blends to the truncated weighted mean over
\* exactly those rows.
C3_AnyGroupWithWeighableRowBlends ==
    (Blended /\ \E k \in 1..Len(group) : Weighable(group[k])) =>
        /\ blended_color.raised = "none"
        /\ \E hex \in blended_color.returned : IsWeightedMean(hex, group)

\* C3 (amended): a group with at least one row that has a colour and a
\* prominence in {low, med, high}, and no row that has a colour and some
\* other prominence, blends to the colour whose channels are the integer
\* part of sum(value * weight) / sum(weight) over exactly the weighable rows
\* (rows missing colour or prominence are ignored), and every permutation of
\* the rows blends to the same colour.
C3_BlendIsTruncatedWeightedMean ==
    (/\ Blended
     /\ \E k \in 1..Len(group) : Weighable(group[k])
     /\ \A k \in 1..Len(group) : ~Unrecognised(group[k]))
    =>
    /\ blended_color.raised = "none"
    /\ Cardinality(blended_color.returned) = 1
    /\ \A hex \in blended_color.returned : IsWeightedMean(hex, group)
    /\ \A p \in Orderings(Len(group)) :
          blend_colors_with_prominence(Reorder(group, p)) = blended_color

\* #ff0000/high with #0000FF/low and a row without prominence has blended
\* to #bf003f.
C3_Witness ==
    /\ group = <<Row(Some(Red), Some("high")), Row(Some(Blue), NA),
                 Row(Some(Blue), Some("low"))>>
    /\ blended_color.returned = {<<"#", "b", "f", "0", "0", "3", "f">>}

\* C4: an empty group, and a group in which no row has both a colour and a
\* prominence, blend to None: the call returns, and returns no colour.
C4_NothingToBlendIsNone ==
    (Blended /\ \A k \in 1..Len(group) : ~HasBoth(group[k])) =>
        /\ blended_color.raised = "none"
        /\ blended_color.returned = {}

\* A group of one row with a prominence and no colour, and one with a colour
\* and no prominence, has blended to None.
C4_Witness ==
    /\ group = <<Row(NA, Some("low")), Row(Some(Red), NA)>>
    /\ blended_color = [raised |-> "none", returned |-> {}]

\* ------------------------------------------------------------------------
\* Properties of the month loop (under Spec, and under SpecPair for C10)

Runs == DOMAIN run

\* The joined records of run r that flower in month m, in frame order.
RecordsIn(r, m) ==
    SelectSeq(run[r].flowering_tree_df, LAMBDA row : row.months_flowering[m])

CellsOf(rows) == {rows[k].h3_index : k \in 1..Len(rows)}

InCell(rows, c) == SelectSeq(rows, LAMBDA row : row.h3_index = c)

Visited(r) == {run[r].visited[k] : k \in 1..Len(run[r].visited)}

LastVisited(r) == run[r].visited[Len(run[r].visited)]

\* Month m's pass of run r was ended by an exception.
RaisedIn(r, m) ==
    run[r].pc = "raised" /\ run[r].visited # <<>> /\ LastVisited(r) = m

\* Month m's pass of run r ran to its end.
Passed(r, m) == m \in Visited(r) /\ ~RaisedIn(r, m)

EntriesFor(r, m, c) ==
    {k \in 1..Len(run[r].blended_colors[m]) : run[r].blended_colors[m][k].h3_index = c}

FilesOf(r, m) == {f \in run[r].files : f.name[2] = m}

SomeRow(rows, P(_)) == \E k \in 1..Len(rows) : P(rows[k])

\* The original C5: in every month entered, a cell has exactly one entry if
\* a record of the cell flowering in the month has both a colour and a
\* prominence, and no entry otherwise.
C5_EveryMonthOneEntryPerBlendableCell ==
    \A r \in Runs : \A m \in Visited(r) :
        \A c \in CellsOf(run[r].flowering_tree_df) :
            Cardinality(EntriesFor(r, m, c)) =
                IF SomeRow(InCell(RecordsIn(r, m), c), HasBoth) THEN 1 ELSE 0

\* C5 (amended): in every month whose pass is not ended by the error of an
\* unrecognised prominence, a cell has exactly one entry if a record of the
\* cell flowering in the month has both a colour and a prominence, and no
\* entry otherwise; a cell without such a record is dropped and the pass
\* goes on with the other cells.
C5_OneEntryPerBlendableCell ==
    \A r \in Runs : \A m \in Visited(r) :
        Passed(r, m) =>
            \A c \in CellsOf(run[r].flowering_tree_df) :
                Cardinality(EntriesFor(r, m, c)) =
                    IF SomeRow(InCell(RecordsIn(r, m), c), HasBoth) THEN 1 ELSE 0

\* A month has passed in which one cell held only a record without
\* prominence, and was dropped, and a cell after it got its entry.
C5_Witness ==
    \E r \in Runs : \E m \in Visited(r) :
        /\ Passed(r, m)
        /\ \E c, d \in CellsOf(RecordsIn(r, m)) :
              /\ c < d
              /\ ~SomeRow(InCell(RecordsIn(r, m), c), HasBoth)
              /\ EntriesFor(r, m, c) = {}
              /\ Cardinality(EntriesFor(r, m, d)) = 1

\* No record flowers in month m, or none that could be blended.
Quiet(r, m) == ~SomeRow(RecordsIn(r, m), HasBoth)

\* The original C6, for a run that has entered the loop: a quiet month
\* writes no file and raises nothing, and the run ends having visited all
\* twelve months once, in calendar order.
C6_EveryRunVisitsAllMonths ==
    \A r \in Runs :
        /\ \A m \in Visited(r) : Quiet(r, m) => (FilesOf(r, m) = {} /\ ~RaisedIn(r, m))
        /\ (run[r].pc \in {"done", "raised"} /\ run[r].visited # <<>>) =>
              (run[r].pc = "done" /\ run[r].visited = MONTHS)

\* C6 (amended): a month in which no record flowers, or in which every
\* cell's blend is absent, writes no PNG and no GeoJSON file and raises no
\* error, and the loop goes on; the months are visited in calendar order,
\* each once, the loop standing at the month after the last one visited; a
\* run that ends without an error has visited all twelve months; and a run
\* ended inside the loop was ended at a month that holds a record of
\* unrecognised prominence.
C6_QuietMonthsAreSkipped ==
    \A r \in Runs :
        /\ \A m \in Visited(r) : Quiet(r, m) => (FilesOf(r, m) = {} /\ ~RaisedIn(r, m))
        /\ run[r].visited = SubSeq(MONTHS, 1, Len(run[r].visited))
        /\ run[r].pc = "loop" =>
              /\ run[r].month = Len(run[r].visited) + 1
              /\ run[r].month <= Len(MONTHS)
        /\ run[r].pc = "done" => run[r].visited = MONTHS
        /\ (run[r].pc = "raised" /\ run[r].visited # <<>>) =>
              SomeRow(RecordsIn(r, LastVisited(r)), Unrecognised)

\* A run has ended after all twelve months: January had only a record
\* without prominence and wrote nothing, February wrote its files, March
\* had no record at all.
C6_Witness ==
    \E r \in Runs :
        /\ run[r].pc = "done"
        /\ run[r].visited = MONTHS
        /\ RecordsIn(r, "Jan") # <<>> /\ Quiet(r, "Jan") /\ FilesOf(r, "Jan") = {}
        /\ Cardinality(FilesOf(r, "Feb")) = 2
        /\ RecordsIn(r, "Mar") = <<>>

\* names lists, once each and in order of first appearance, the species of
\* rows.
IsFirstOccurrenceList(names, rows) ==
    /\ {names[k] : k \in 1..Len(names)} = {rows[k].TreeName : k \in 1..Len(rows)}
    /\ \A i, j \in 1..Len(names) : names[i] = names[j] => i = j
    /\ \A i, j \in 1..Len(names) :
          i < j =>
              \E a \in 1..Len(rows) :
                  /\ rows[a].TreeName = names[i]
                  /\ \A b \in 1..a : rows[b].TreeName # names[j]

\* C7: the species list of every cell aggregate holds the distinct species
\* of all records of the cell that flower in the month, each once, in order
\* of first appearance in the group.
C7_SpeciesListedOnceInOrder ==
    \A r \in Runs : \A m \in MonthLabels :
        \A k \in 1..Len(run[r].blended_colors[m]) :
            LET entry == run[r].blended_colors[m][k]
            IN  IsFirstOccurrenceList(entry.tree_species,
                                      InCell(RecordsIn(r, m), entry.h3_index))

\* An aggregate lists one species for a cell with two records of it.
C7_Witness ==
    \E r \in Runs : \E m \in MonthLabels :
        \E k \in 1..Len(run[r].blended_colors[m]) :
            LET entry == run[r].blended_colors[m][k]
            IN  /\ Len(entry.tree_species) = 1
                /\ Len(InCell(RecordsIn(r, m), entry.h3_index)) = 2

\* C8: when a record flowering in a month entered has a colour and a
\* prominence outside {low, med, high}, the blend of its group raises and
\* returns no colour, the cell gets no aggregate, and the run is ended by
\* that error in that month with no file written for the month.
C8_UnrecognisedProminenceEndsTheRun ==
    \A r \in Runs : \A m \in Visited(r) :
        \A k \in 1..Len(RecordsIn(r, m)) :
            LET row  == RecordsIn(r, m)[k]
                rows == InCell(RecordsIn(r, m), row.h3_index)
            IN  Unrecognised(row) =>
                    /\ blend_colors_with_prominence(rows) =
                          [raised |-> "KeyError", returned |-> {}]
                    /\ EntriesFor(r, m, row.h3_index) = {}
                    /\ RaisedIn(r, m)
                    /\ run[r].raised = "KeyError"
                    /\ FilesOf(r, m) = {}

\* A run was ended in February, after a quiet January, by a group holding
\* a blendable record and after it one of unrecognised prominence.
C8_Witness ==
    \E r \in Runs :
        /\ RaisedIn(r, "Feb")
        /\ run[r].raised = "KeyError"
        /\ run[r].visited = <<"Jan", "Feb">>
        /\ \E c \in CellsOf(RecordsIn(r, "Feb")) :
              /\ Weighable(InCell(RecordsIn(r, "Feb"), c)[1])
              /\ Unrecognised(InCell(RecordsIn(r, "Feb"), c)[2])

BothEnded == \A r \in Runs : run[r].pc \in {"done", "raised"}

====
